---- MODULE Spec2Model ----
(***************************************************************************)
(* State-machine model of api/index.js: an Express relay in front of the   *)
(* Spotify web API.  The state is the in-memory token triple, the wall     *)
(* clock read by Date.now(), and one record per in-flight HTTP request.    *)
(* Requests have no identity of their own, so those in flight form a bag.  *)
(* A handler runs atomically from one await on an outbound axios call to   *)
(* the next (Node runs a handler and the microtasks it queues to           *)
(* completion before it dispatches the next I/O callback); the provider    *)
(* answers each outbound call later, with success or failure.              *)
(***************************************************************************)
EXTENDS Integers, Sequences, FiniteSets, Bags, TLC

\* ------------------------------------------------------------------ bounds
NumReq == 2        \* requests in flight at the same time
MaxTime == 2000    \* last clock instant explored, in ms
MaxLifetime == 1   \* largest expires_in the provider reports, in seconds
MaxIssued == 3     \* successful token grants explored

TickSteps == {1000}               \* how far the clock moves between steps
Lifetimes == 1..MaxLifetime

\* ------------------------------------------------------------- constants
MsPerSecond == 1000               \* "expires_in * 1000"
NoInstant == -1                   \* token_expires_at = null

\* A token is identified by the authorization (code exchange) it stems from
\* and by the serial number of the grant that issued it.
Null == [auth |-> 0, n |-> 0]     \* null / undefined token
Absent == "<absent>"              \* a field the response does not carry

Protected == {"/spotify", "/spotify/pause", "/spotify/resume",
              "/spotify/play", "/spotify/devices"}

\* the paths app registers a handler for
Routes == {"/", "/auth", "/callback"} \cup Protected

TokenEndpoint == "accounts/api/token"

\* JSON payloads: a record's fields are the keys the object carries
JsNull == [null |-> TRUE]         \* null where an object is expected
NullUrl == "<null>"               \* null where a string is expected
NoBody == [absent |-> TRUE]       \* a response whose body is not a snapshot
EmptyBody == [length |-> 0]       \* "": the body of a 204 No Content
NotHandled == [handled |-> FALSE]

\* provider track objects: one with two artists and no preview, one with
\* a single artist
TrackA ==
    [id |-> "t1", name |-> "Song",
     artists |-> <<[name |-> "A"], [name |-> "B"]>>,
     album |-> [name |-> "Alb"], duration_ms |-> 1000,
     external_urls |-> [spotify |-> "url"], preview_url |-> NullUrl,
     uri |-> "spotify:track:t1"]
TrackB ==
    [id |-> "t2", name |-> "Tune",
     artists |-> <<[name |-> "C"]>>,
     album |-> [name |-> "Lp"], duration_ms |-> 2000,
     external_urls |-> [spotify |-> "url2"], preview_url |-> "prev2",
     uri |-> "spotify:track:t2"]

\* topTracksRes.data.items as the provider may answer
ItemLists == {<<>>, <<TrackA, TrackB>>}

\* nowPlayingRes.data as the provider may answer: an empty body, an object
\* without an item, an object with the item being played
PlayingData ==
    {EmptyBody,
     [item |-> JsNull, progress_ms |-> 0, is_playing |-> FALSE],
     [item |-> TrackB, progress_ms |-> 30, is_playing |-> TRUE],
     [item |-> TrackA, progress_ms |-> 0, is_playing |-> FALSE]}

VARIABLES
    access_token,      \* let access_token
    refresh_token,     \* let refresh_token
    token_expires_at,  \* let token_expires_at (ms), NoInstant for null
    now,               \* Date.now()
    issued,            \* provider side: token grants answered with success
    inflight,          \* the requests whose handlers are suspended on an
                       \* outbound call: a bag of records (see Req)
    sent,              \* what the step just taken sent to a client: the
                       \* route of the request answered, whether it carried
                       \* its input, the endpoints called for it and the
                       \* HTTP response; Nothing when the step answered none
    tokenRes,          \* tokenRes.data of the token-endpoint response the
                       \* step just taken handled; NoData when it handled none
    nowPlayingRes      \* nowPlayingRes.data of the currently-playing response
                       \* the step just taken handled; NotHandled when none

vars == <<access_token, refresh_token, token_expires_at, now, issued,
          inflight, sent, tokenRes, nowPlayingRes>>
tokenState == <<access_token, refresh_token, token_expires_at>>

\* a suspended request: its route, the await it is suspended at, whether it
\* carries the input its handler reads (req.query.code, req.body.uri), the
\* outbound calls issued for it so far, the refresh_token in the body of
\* its refresh grant while that call is in flight, and /spotify's locals
\* topTracksRes.data.items and top_tracks (empty until they are assigned)
Req(rt, at, u, cs, rtok) ==
    [route |-> rt, pc |-> at, input |-> u, calls |-> cs, posted |-> rtok,
     items |-> <<>>, top_tracks |-> <<>>]

NoResp == [status |-> 0, type |-> Absent, error |-> Absent,
           details |-> Absent, message |-> Absent, body |-> NoBody]

Nothing == [route |-> Absent, input |-> FALSE, calls |-> <<>>, resp |-> NoResp]

NoData == [grant_type |-> Absent, access_token |-> Null, refresh_token |-> Null,
           expires_in |-> 0]

\* the body of a successful token-endpoint response
TokenData(grant, at, rtok, life) ==
    [grant_type |-> grant, access_token |-> at, refresh_token |-> rtok,
     expires_in |-> life]

\* res.json(...) / res.send(...) / res.redirect(...) on success
Reply(status, type, message) ==
    [status |-> status, type |-> type, error |-> Absent,
     details |-> Absent, message |-> message, body |-> NoBody]

\* res.status(s).json({ error, details })
ErrorJson(status, error, details) ==
    [status |-> status, type |-> "json", error |-> error,
     details |-> details, message |-> Absent, body |-> NoBody]

\* the error summary of each protected handler's catch block
ErrSummary(rt) ==
    CASE rt = "/spotify"         -> "Failed to fetch data"
      [] rt = "/spotify/pause"   -> "Failed to pause playback"
      [] rt = "/spotify/resume"  -> "Failed to resume playback"
      [] rt = "/spotify/play"    -> "Failed to start playback"
      [] rt = "/spotify/devices" -> "Failed to get devices"

\* the message of each playback-control handler on success
OkMessage(rt) ==
    CASE rt = "/spotify/pause"   -> "Playback paused successfully"
      [] rt = "/spotify/resume"  -> "Playback resumed successfully"
      [] rt = "/spotify/play"    -> "Playback started successfully"

\* the first provider endpoint a protected handler calls after the token check
FirstEndpoint(rt) ==
    CASE rt = "/spotify"         -> "v1/me/top/tracks"
      [] rt = "/spotify/pause"   -> "v1/me/player/pause"
      [] rt = "/spotify/resume"  -> "v1/me/player/play"
      [] rt = "/spotify/play"    -> "v1/me/player/play"
      [] rt = "/spotify/devices" -> "v1/me/player/devices"

\* where the handler is suspended while that first call is in flight
FirstAwait(rt) ==
    CASE rt = "/spotify"         -> "await_top"
      [] rt = "/spotify/devices" -> "await_devices"
      [] OTHER                   -> "await_player"

\* an outbound call: the endpoint and the Bearer token of its Authorization
\* header (Null for the token endpoint, which is called without one)
Call(ep, bearer) == [ep |-> ep, bearer |-> bearer]

\* the endpoints of a sequence of outbound calls
Endpoints(cs) == [i \in 1..Len(cs) |-> cs[i].ep]

\* Number(token_expires_at): null compares as 0
ExpiryNumber == IF token_expires_at = NoInstant THEN 0 ELSE token_expires_at

\* the condition of ensureAccessToken's outer if
NeedsRefresh == access_token = Null \/ now > ExpiryNumber

\* the expiry stored as the lifetime alone, without Date.now()
ExpiresAtRelative(life) == life * MsPerSecond

\* the expiry computed without the conversion of seconds to milliseconds
ExpiresAtSeconds(life) == now + life

\* Date.now() + expires_in * 1000
ExpiresAt(life) == now + life * MsPerSecond

Init ==
    /\ access_token = Null
    /\ refresh_token = Null
    /\ token_expires_at = NoInstant
    /\ now = 0
    /\ issued = 0
    /\ inflight = EmptyBag
    /\ sent = Nothing
    /\ tokenRes = NoData
    /\ nowPlayingRes = NotHandled

\* the response of the step before has been written out and its token
\* response consumed: the event loop is ready for the next event
Quiet == sent = Nothing /\ tokenRes = NoData /\ nowPlayingRes = NotHandled

\* the requests in flight
Pending == BagToSet(inflight)

\* the requests in flight other than q
Others(q) == inflight (-) SetToBag({q})

\* the server takes a new request (the model explores up to NumReq requests
\* in flight at a time)
Accept == BagCardinality(inflight) < NumReq

\* the clock moves on
Tick ==
    /\ Quiet
    /\ \E d \in TickSteps : now + d <= MaxTime /\ now' = now + d
    /\ sent' = Nothing
    /\ tokenRes' = NoData
    /\ nowPlayingRes' = NotHandled
    /\ UNCHANGED <<access_token, refresh_token, token_expires_at, issued, inflight>>

\* a request on route rt is answered with rs and its handler ends; rest are
\* the other requests in flight
Finish(rest, rt, u, cs, rs) ==
    /\ inflight' = rest
    /\ sent' = [route |-> rt, input |-> u, calls |-> Endpoints(cs), resp |-> rs]

\* a request issues an outbound call and suspends at `at`; a refresh grant
\* carries the refresh_token rtok in its body
Suspend(rest, rt, u, cs, at, rtok) ==
    /\ inflight' = rest (+) SetToBag({Req(rt, at, u, cs, rtok)})
    /\ sent' = Nothing

\* GET /
Root ==
    /\ Quiet
    /\ Accept
    /\ Finish(inflight, "/", FALSE, <<>>, Reply(200, "json", "API is running"))
    /\ tokenRes' = NoData
    /\ nowPlayingRes' = NotHandled
    /\ UNCHANGED <<access_token, refresh_token, token_expires_at, now, issued>>

\* GET /ping: app registers no route for this path, so the request falls
\* through to Express's final handler, which answers 404
Unrouted ==
    /\ Quiet
    /\ Accept
    /\ Finish(inflight, "/ping", FALSE, <<>>, Reply(404, "html", "Cannot GET /ping"))
    /\ tokenRes' = NoData
    /\ nowPlayingRes' = NotHandled
    /\ UNCHANGED <<access_token, refresh_token, token_expires_at, now, issued>>

\* GET /auth
Auth ==
    /\ Quiet
    /\ Accept
    /\ Finish(inflight, "/auth", FALSE, <<>>,
              Reply(302, "redirect", "accounts/authorize"))
    /\ tokenRes' = NoData
    /\ nowPlayingRes' = NotHandled
    /\ UNCHANGED <<access_token, refresh_token, token_expires_at, now, issued>>

\* the check of the code left out
CodeMissingNever(code) == FALSE

\* "if (!code)"
CodeMissing(code) == ~code

\* GET /callback, up to the await on the code exchange
Callback(code) ==
    /\ Quiet
    /\ Accept
    /\ IF CodeMissing(code)
         THEN Finish(inflight, "/callback", code, <<>>,
                     Reply(400, "text", "No code provided"))
         ELSE Suspend(inflight, "/callback", code, <<Call(TokenEndpoint, Null)>>,
                      "await_exchange", Null)
    /\ tokenRes' = NoData
    /\ nowPlayingRes' = NotHandled
    /\ UNCHANGED <<access_token, refresh_token, token_expires_at, now, issued>>

\* the code exchange storing the tokens and leaving token_expires_at as it was
CallbackTokensHalf(q, life) ==
    /\ Quiet
    /\ q.pc = "await_exchange"
    /\ issued < MaxIssued
    /\ LET fresh == [auth |-> issued + 1, n |-> issued + 1]
       IN /\ tokenRes' = TokenData("authorization_code", fresh, fresh, life)
          /\ nowPlayingRes' = NotHandled
          /\ access_token' = fresh
          /\ refresh_token' = fresh
    /\ issued' = issued + 1
    /\ Finish(Others(q), q.route, q.input, q.calls,
              Reply(200, "text", "Authentication successful! You can close this window."))
    /\ UNCHANGED <<now, token_expires_at>>

\* the code exchange of request q succeeds: the rest of /callback's try
\* block.  The provider answers with the access and refresh token of a new
\* authorization.
CallbackTokens(q, life) ==
    /\ Quiet
    /\ q.pc = "await_exchange"
    /\ issued < MaxIssued
    /\ LET fresh == [auth |-> issued + 1, n |-> issued + 1]
       IN /\ tokenRes' = TokenData("authorization_code", fresh, fresh, life)
          /\ nowPlayingRes' = NotHandled
          /\ access_token' = fresh
          /\ refresh_token' = fresh
    /\ issued' = issued + 1
    /\ token_expires_at' = ExpiresAt(life)
    /\ Finish(Others(q), q.route, q.input, q.calls,
              Reply(200, "text", "Authentication successful! You can close this window."))
    /\ UNCHANGED now

\* a catch block that drops the cached tokens when the code exchange fails
CallbackFailedClears(q) ==
    /\ Quiet
    /\ q.pc = "await_exchange"
    /\ Finish(Others(q), q.route, q.input, q.calls,
              ErrorJson(500, "Failed to get tokens", "upstream"))
    /\ tokenRes' = NoData
    /\ nowPlayingRes' = NotHandled
    /\ access_token' = Null
    /\ refresh_token' = Null
    /\ token_expires_at' = NoInstant
    /\ UNCHANGED <<now, issued>>

\* the code exchange of request q fails: /callback's catch block
CallbackFailed(q) ==
    /\ Quiet
    /\ q.pc = "await_exchange"
    /\ Finish(Others(q), q.route, q.input, q.calls,
              ErrorJson(500, "Failed to get tokens", "upstream"))
    /\ tokenRes' = NoData
    /\ nowPlayingRes' = NotHandled
    /\ UNCHANGED <<access_token, refresh_token, token_expires_at, now, issued>>

\* ensureAccessToken without "if (!refresh_token) throw"
EnsureOutcomeNoThrow == IF NeedsRefresh THEN "refresh" ELSE "valid"

\* what ensureAccessToken does when called: return at once, throw, or
\* post a refresh grant and suspend
EnsureOutcome ==
    IF NeedsRefresh
      THEN IF refresh_token = Null THEN "throw" ELSE "refresh"
      ELSE "valid"

\* req.body.uri is missing in POST /spotify/play
UriMissing(rt, u) == rt = "/spotify/play" /\ ~u

\* a handler that sends the 400 for a missing uri without returning, and
\* goes on to call the provider
AfterEnsureNoReturn(rest, rt, u, cs, at) ==
    /\ inflight' = rest (+) SetToBag({
          Req(rt, FirstAwait(rt), u, Append(cs, Call(FirstEndpoint(rt), at)), Null)})
    /\ sent' = IF UriMissing(rt, u)
                 THEN [route |-> rt, input |-> u, calls |-> Endpoints(cs),
                       resp |-> ErrorJson(400, "Missing uri in request body", Absent)]
                 ELSE Nothing

\* a protected handler from the return of ensureAccessToken to its next
\* await: `at` is the cached access token read for the Authorization header
AfterEnsure(rest, rt, u, cs, at) ==
    IF UriMissing(rt, u)
      THEN Finish(rest, rt, u, cs,
                  ErrorJson(400, "Missing uri in request body", Absent))
      ELSE Suspend(rest, rt, u, Append(cs, Call(FirstEndpoint(rt), at)),
                   FirstAwait(rt), Null)

\* a protected handler from its start to its first await or response
Handle(rt, u) ==
    /\ Accept
    /\ CASE EnsureOutcome = "throw" ->
              Finish(inflight, rt, u, <<>>,
                     ErrorJson(500, ErrSummary(rt), "No refresh token available"))
         [] EnsureOutcome = "refresh" ->
              Suspend(inflight, rt, u, <<Call(TokenEndpoint, Null)>>,
                      "await_refresh", refresh_token)
         [] OTHER -> AfterEnsure(inflight, rt, u, <<>>, access_token)
    /\ tokenRes' = NoData
    /\ nowPlayingRes' = NotHandled
    /\ UNCHANGED <<access_token, refresh_token, token_expires_at, now, issued>>

\* GET /spotify
GetSpotify == Quiet /\ Handle("/spotify", FALSE)
\* POST /spotify/pause
Pause == Quiet /\ Handle("/spotify/pause", FALSE)
\* POST /spotify/resume
Resume == Quiet /\ Handle("/spotify/resume", FALSE)
\* POST /spotify/play
Play(u) == Quiet /\ Handle("/spotify/play", u)
\* GET /spotify/devices
GetDevices == Quiet /\ Handle("/spotify/devices", FALSE)

\* the refresh_token overwritten with whatever the response carries
RotatedRefreshTokenAlways(stored, returned) == returned

\* the refresh_token never overwritten
RotatedRefreshTokenNever(stored, returned) == stored

\* "if (tokenRes.data.refresh_token) refresh_token = tokenRes.data.refresh_token"
RotatedRefreshToken(stored, returned) ==
    IF returned # Null THEN returned ELSE stored

\* the refresh grant of request q succeeds: the rest of ensureAccessToken,
\* then the handler goes on.  The provider answers with a new access token
\* of the authorization the posted refresh_token belongs to, and with a new
\* refresh_token or none.
RefreshTokens(q, life, rotate) ==
    /\ Quiet
    /\ q.pc = "await_refresh"
    /\ issued < MaxIssued
    /\ LET fresh == [auth |-> q.posted.auth, n |-> issued + 1]
           returned == IF rotate THEN fresh ELSE Null
       IN /\ issued' = issued + 1
          /\ tokenRes' = TokenData("refresh_token", fresh, returned, life)
          /\ nowPlayingRes' = NotHandled
          /\ access_token' = fresh
          /\ refresh_token' = RotatedRefreshToken(refresh_token, returned)
          /\ token_expires_at' = ExpiresAt(life)
          /\ AfterEnsure(Others(q), q.route, q.input, q.calls, fresh)
    /\ UNCHANGED now

\* track.artists.map(a => a.name)
ArtistNames(artists) == [i \in 1..Len(artists) |-> artists[i].name]

\* names.join(sep)
RECURSIVE Join(_, _)
Join(names, sep) ==
    IF names = <<>> THEN ""
    ELSE IF Len(names) = 1 THEN names[1]
    ELSE names[1] \o sep \o Join(Tail(names), sep)

\* the artists joined with a comma and no space
ArtistsOfComma(track) == Join(ArtistNames(track.artists), ",")

\* track.artists.map(a => a.name).join(', ')
ArtistsOf(track) == Join(ArtistNames(track.artists), ", ")

\* the callback of topTracksRes.data.items.map: one top_tracks entry
TrackSummary(track) ==
    [id |-> track.id,
     name |-> track.name,
     artists |-> ArtistsOf(track),
     album |-> track.album.name,
     duration_ms |-> track.duration_ms,
     external_urls |-> track.external_urls.spotify,
     preview_url |-> track.preview_url,
     uri |-> track.uri]

\* topTracksRes.data.items.map(...)
TopTracksOf(items) == [i \in 1..Len(items) |-> TrackSummary(items[i])]

\* "if (nowPlayingRes.data && nowPlayingRes.data.item)"
HasItem(data) == data # EmptyBody /\ data.item # JsNull

\* now_playing as the handler builds it from nowPlayingRes.data
NowPlayingOf(data) ==
    IF HasItem(data)
      THEN [id |-> data.item.id,
            name |-> data.item.name,
            artists |-> ArtistsOf(data.item),
            album |-> data.item.album.name,
            duration_ms |-> data.item.duration_ms,
            progress_ms |-> data.progress_ms,
            is_playing |-> data.is_playing,
            external_urls |-> data.item.external_urls.spotify,
            uri |-> data.item.uri]
      ELSE JsNull

\* a snapshot that leaves top_tracks empty
SnapshotBodyNoTracks(top_tracks, now_playing) ==
    [top_tracks |-> <<>>, now_playing |-> now_playing, timestamp |-> now]

\* the object passed to res.json; timestamp is the instant that
\* new Date().toISOString() denotes
SnapshotBody(top_tracks, now_playing) ==
    [top_tracks |-> top_tracks, now_playing |-> now_playing, timestamp |-> now]

\* a catch block that hides a failed currently-playing call: it answers
\* with the top tracks and now_playing null
ProviderFailedSwallowed(q) ==
    /\ Quiet
    /\ q.pc \in {"await_refresh", "await_top", "await_now",
                 "await_player", "await_devices"}
    /\ IF q.pc = "await_now"
         THEN Finish(Others(q), q.route, q.input, q.calls,
                     [Reply(200, "json", Absent)
                        EXCEPT !.body = SnapshotBody(q.top_tracks, JsNull)])
         ELSE Finish(Others(q), q.route, q.input, q.calls,
                     ErrorJson(500, ErrSummary(q.route), "upstream"))
    /\ tokenRes' = NoData
    /\ nowPlayingRes' = NotHandled
    /\ UNCHANGED <<access_token, refresh_token, token_expires_at, now, issued>>

\* a catch block that issues the failed call once more instead of answering
ProviderFailedRetries(q) ==
    /\ Quiet
    /\ q.pc \in {"await_refresh", "await_top", "await_now",
                 "await_player", "await_devices"}
    /\ Suspend(Others(q), q.route, q.input,
               Append(q.calls, q.calls[Len(q.calls)]), q.pc, q.posted)
    /\ tokenRes' = NoData
    /\ nowPlayingRes' = NotHandled
    /\ UNCHANGED <<access_token, refresh_token, token_expires_at, now, issued>>

\* a provider call of protected request q fails (the refresh grant, or a
\* data or player call): the handler's catch block
ProviderFailed(q) ==
    /\ Quiet
    /\ q.pc \in {"await_refresh", "await_top", "await_now",
                 "await_player", "await_devices"}
    /\ Finish(Others(q), q.route, q.input, q.calls,
              ErrorJson(500, ErrSummary(q.route), "upstream"))
    /\ tokenRes' = NoData
    /\ nowPlayingRes' = NotHandled
    /\ UNCHANGED <<access_token, refresh_token, token_expires_at, now, issued>>

\* /spotify: the top-tracks call succeeds with `items`; the handler reshapes
\* them and calls currently-playing with the access token cached at that
\* moment
TopTracks(q, items) ==
    /\ Quiet
    /\ q.pc = "await_top"
    /\ inflight' = Others(q) (+) SetToBag({
          [Req(q.route, "await_now", q.input,
               Append(q.calls, Call("v1/me/player/currently-playing", access_token)),
               Null)
             EXCEPT !.items = items, !.top_tracks = TopTracksOf(items)]})
    /\ sent' = Nothing
    /\ tokenRes' = NoData
    /\ nowPlayingRes' = NotHandled
    /\ UNCHANGED <<access_token, refresh_token, token_expires_at, now, issued>>

\* /spotify: the currently-playing call succeeds with `data`; the snapshot
\* is sent
NowPlaying(q, data) ==
    /\ Quiet
    /\ q.pc = "await_now"
    /\ Finish(Others(q), q.route, q.input, q.calls,
              [Reply(200, "json", Absent)
                 EXCEPT !.body = SnapshotBody(q.top_tracks, NowPlayingOf(data))])
    /\ tokenRes' = NoData
    /\ nowPlayingRes' = data
    /\ UNCHANGED <<access_token, refresh_token, token_expires_at, now, issued>>

\* pause, resume, play: the player call succeeds
PlayerPut(q) ==
    /\ Quiet
    /\ q.pc = "await_player"
    /\ Finish(Others(q), q.route, q.input, q.calls,
              Reply(200, "json", OkMessage(q.route)))
    /\ tokenRes' = NoData
    /\ nowPlayingRes' = NotHandled
    /\ UNCHANGED <<access_token, refresh_token, token_expires_at, now, issued>>

\* /spotify/devices: the devices call succeeds; its payload is passed on
Devices(q) ==
    /\ Quiet
    /\ q.pc = "await_devices"
    /\ Finish(Others(q), q.route, q.input, q.calls, Reply(200, "json", "devices"))
    /\ tokenRes' = NoData
    /\ nowPlayingRes' = NotHandled
    /\ UNCHANGED <<access_token, refresh_token, token_expires_at, now, issued>>

\* the response is written out and the token response consumed
Flush ==
    /\ ~Quiet
    /\ sent' = Nothing
    /\ tokenRes' = NoData
    /\ nowPlayingRes' = NotHandled
    /\ UNCHANGED <<access_token, refresh_token, token_expires_at, now, issued,
                   inflight>>

Next ==
    \/ Flush
    \/ Tick
    \/ Root
    \/ Unrouted
    \/ Auth
    \/ \E code \in BOOLEAN : Callback(code)
    \/ \E q \in Pending, life \in Lifetimes : CallbackTokens(q, life)
    \/ \E q \in Pending : CallbackFailed(q)
    \/ GetSpotify
    \/ Pause
    \/ Resume
    \/ \E u \in BOOLEAN : Play(u)
    \/ GetDevices
    \/ \E q \in Pending, life \in Lifetimes, rotate \in BOOLEAN :
          RefreshTokens(q, life, rotate)
    \/ \E q \in Pending : ProviderFailed(q)
    \/ \E q \in Pending, items \in ItemLists : TopTracks(q, items)
    \/ \E q \in Pending, data \in PlayingData : NowPlaying(q, data)
    \/ \E q \in Pending : PlayerPut(q)
    \/ \E q \in Pending : Devices(q)

Spec == Init /\ [][Next]_vars

\* the provider answers the outstanding call of some request, with success
\* or with failure
Answer ==
    \E q \in Pending :
       \/ \E life \in Lifetimes : CallbackTokens(q, life)
       \/ CallbackFailed(q)
       \/ \E life \in Lifetimes, rotate \in BOOLEAN : RefreshTokens(q, life, rotate)
       \/ ProviderFailed(q)
       \/ \E items \in ItemLists : TopTracks(q, items)
       \/ \E data \in PlayingData : NowPlaying(q, data)
       \/ PlayerPut(q)
       \/ Devices(q)

\* every outbound call is eventually answered, and a response handed to
\* res.send is eventually written out
SpecFair == Spec /\ WF_vars(Answer) /\ WF_vars(Flush)

TypeOK ==
    /\ now \in 0..MaxTime
    /\ issued \in 0..MaxIssued
    /\ token_expires_at \in {NoInstant} \cup 0..(MaxTime + MaxLifetime * MsPerSecond)
    /\ BagCardinality(inflight) <= NumReq
    /\ \A q \in Pending :
          q.pc \in {"await_exchange", "await_refresh", "await_top",
                    "await_now", "await_player", "await_devices"}

\* ------------------------------------------------------------ properties

\* the step receives a request on route rt and answers it before it returns
Immediate(rt) == inflight' = inflight /\ sent' # Nothing /\ sent'.route = rt

\* the step receives request q and suspends it on an outbound call
Started(q) == inflight' = inflight (+) SetToBag({q})

\* the step receives a request on route rt
Arrives(rt) ==
    Immediate(rt) \/ \E q \in BagToSet(inflight') : q.route = rt /\ Started(q)

\* the step handles the successful answer to a refresh grant
RefreshSucceeds == tokenRes'.grant_type = "refresh_token"

\* the step handles the successful answer to a code exchange
ExchangeSucceeds == tokenRes'.grant_type = "authorization_code"

\* how many calls of cs go to the token endpoint
TokenCalls(cs) == Cardinality({i \in 1..Len(cs) : cs[i].ep = TokenEndpoint})

\* C1: every POST /spotify/play request without a uri, in every token
\* state, is answered 400, and no outbound call is issued for it.
C1_PlayWithoutUriIs400WithoutCall ==
    /\ (sent.route = "/spotify/play" /\ ~sent.input)
          => (sent.resp.status = 400 /\ sent.calls = <<>>)
    /\ \A q \in Pending :
          (q.route = "/spotify/play" /\ ~q.input) => q.calls = <<>>

\* C2: a request to a protected endpoint handled while access_token and
\* refresh_token are both absent is answered in the same step with the error
\* envelope of its handler carrying the auth failure, no outbound call is
\* issued for it, the token state is unchanged and the server still takes
\* the next request.
C2_NoTokensIsAuthError ==
    [][\A rt \in Protected :
          (access_token = Null /\ refresh_token = Null /\ Arrives(rt))
          => (/\ Immediate(rt)
              /\ sent'.resp = ErrorJson(500, ErrSummary(rt), "No refresh token available")
              /\ sent'.calls = <<>>
              /\ tokenState' = tokenState
              /\ BagCardinality(inflight') < NumReq)]_vars

C2_Witness ==
    /\ sent.route \in Protected
    /\ sent.resp.details = "No refresh token available"
    /\ access_token = Null
    /\ refresh_token = Null

\* C3: with a refresh_token stored, a protected request posts a refresh
\* grant exactly when access_token is absent or now >= token_expires_at, and
\* when it posts none the three token fields are unchanged.
C3_RefreshIffAbsentOrNotBefore ==
    [][\A q \in BagToSet(inflight') :
          (Started(q) /\ q.route \in Protected /\ refresh_token # Null)
          => (/\ (q.pc = "await_refresh")
                    <=> (access_token = Null \/ now >= token_expires_at)
              /\ (q.pc # "await_refresh" => tokenState' = tokenState))]_vars

\* C4: when a refresh grant of ensureAccessToken succeeds, then as
\* ensureAccessToken returns access_token is present and token_expires_at
\* is strictly later than the current time.
C4_RefreshYieldsLiveToken ==
    [][RefreshSucceeds
          => (access_token' # Null /\ token_expires_at' > now')]_vars

C4_Witness ==
    /\ tokenRes.grant_type = "refresh_token"
    /\ access_token = tokenRes.access_token
    /\ token_expires_at > now
    /\ now > 0

\* C5: in every reachable state, if access_token is present then
\* token_expires_at is present.
C5_AccessTokenHasExpiry ==
    access_token # Null => token_expires_at # NoInstant

C5_Witness ==
    /\ access_token # Null
    /\ token_expires_at # NoInstant
    /\ \E q, p \in Pending : q.pc = "await_exchange" /\ p.pc = "await_refresh"

\* C6: no request posts more than one refresh grant, and every refresh grant
\* that succeeds, the last of two concurrent ones included, leaves the cache
\* with access_token present, token_expires_at in the future and
\* refresh_token present.
C6_ConcurrentRefreshesLeaveValidCache ==
    [][/\ \A q \in BagToSet(inflight') : TokenCalls(q.calls) <= 1
       /\ RefreshSucceeds
          => (/\ access_token' # Null
              /\ access_token' = tokenRes'.access_token
              /\ token_expires_at' > now'
              /\ refresh_token' # Null)]_vars

C6_Witness ==
    \E q, p \in Pending :
        /\ Len(q.calls) = 2 /\ q.calls[1].ep = TokenEndpoint
        /\ Len(p.calls) = 2 /\ p.calls[1].ep = TokenEndpoint
        /\ q.calls[2].bearer.n + 1 = p.calls[2].bearer.n
        /\ access_token = p.calls[2].bearer
        /\ tokenRes.grant_type = "refresh_token"
        /\ token_expires_at > now
        /\ refresh_token # Null

\* C7: a GET /callback request without a code is answered 400 in the same
\* step, no outbound call is issued for it and the three token fields are
\* unchanged; only a request with a code posts the code exchange.
C7_CallbackWithoutCode ==
    [][/\ Immediate("/callback")
          => (/\ ~sent'.input
              /\ sent'.resp = Reply(400, "text", "No code provided")
              /\ sent'.calls = <<>>
              /\ tokenState' = tokenState)
       /\ \A q \in BagToSet(inflight') :
             (Started(q) /\ q.route = "/callback") => q.input]_vars

C7_Witness ==
    /\ sent.route = "/callback"
    /\ ~sent.input
    /\ sent.resp.status = 400
    /\ access_token # Null

\* C8: a successful refresh replaces refresh_token with the one the response
\* carries when it carries one and leaves it unchanged when it carries none;
\* a present refresh_token never becomes absent.
C8_RefreshTokenRotation ==
    [][RefreshSucceeds
          => (/\ tokenRes'.refresh_token # Null
                    => refresh_token' = tokenRes'.refresh_token
              /\ tokenRes'.refresh_token = Null
                    => refresh_token' = refresh_token
              /\ refresh_token # Null => refresh_token' # Null)]_vars

C8_Witness ==
    /\ tokenRes.grant_type = "refresh_token"
    /\ tokenRes.refresh_token = Null
    /\ refresh_token # Null
    /\ refresh_token # access_token

\* C9: the three token fields change only in a step that handles the
\* successful answer to a code exchange or to a refresh grant of a request
\* that was suspended on that call.
C9_TokensChangeOnlyOnGrant ==
    [][tokenState' # tokenState
          => /\ ExchangeSucceeds \/ RefreshSucceeds
             /\ \E q \in Pending :
                   /\ q.pc \in {"await_exchange", "await_refresh"}
                   /\ CopiesIn(q, inflight') < CopiesIn(q, inflight)]_vars

C9_Witness ==
    /\ sent.route = "/callback"
    /\ sent.resp.status = 500
    /\ access_token # Null

\* C10: a successful code exchange sets the cache to the returned
\* access_token and refresh_token with token_expires_at = time of the
\* response + reported lifetime and answers with the plain-text
\* confirmation; a protected request that starts with a token present and
\* before token_expires_at posts no call to the token endpoint.
C10_CallbackPopulatesCache ==
    [][/\ ExchangeSucceeds
          => (/\ access_token' = tokenRes'.access_token
              /\ refresh_token' = tokenRes'.refresh_token
              /\ token_expires_at' = now' + tokenRes'.expires_in * MsPerSecond
              /\ sent'.route = "/callback"
              /\ sent'.resp = Reply(200, "text",
                     "Authentication successful! You can close this window."))
       /\ \A q \in BagToSet(inflight') :
             (/\ Started(q)
              /\ q.route \in Protected
              /\ access_token # Null
              /\ now < token_expires_at)
             => (q.pc # "await_refresh" /\ TokenCalls(q.calls) = 0)]_vars

C10_Witness ==
    \E q \in Pending :
        /\ q.route \in Protected
        /\ Len(q.calls) = 1
        /\ q.calls[1].bearer = access_token
        /\ access_token.n = access_token.auth
        /\ access_token # Null
        /\ now < token_expires_at

\* C11: every failure response (status 400 or above) of any handler is a
\* JSON error envelope that carries an error summary and a details field.
C11_FailuresAreJsonEnvelopes ==
    (sent.route \in Routes /\ sent.resp.status >= 400)
       => (/\ sent.resp.type = "json"
           /\ sent.resp.error # Absent
           /\ sent.resp.details # Absent)

\* the endpoints of cs are pairwise different
NoRepeat(cs) ==
    \A i, j \in 1..Len(cs) : cs[i].ep = cs[j].ep => i = j

\* the step answers a request because one of its provider calls failed
UpstreamFailure == sent' # Nothing /\ sent'.resp.details = "upstream"

\* C12: no request calls a provider endpoint twice, and the step in which a
\* provider call of a request fails answers that request and ends it with
\* the calls it had made, adding none.
C12_NoProviderCallIsRetried ==
    [][/\ \A q \in BagToSet(inflight') : NoRepeat(q.calls)
       /\ UpstreamFailure
             => \E q \in Pending :
                   /\ inflight' = Others(q)
                   /\ sent'.route = q.route
                   /\ sent'.calls = Endpoints(q.calls)]_vars

C12_Witness ==
    /\ sent.route = "/spotify"
    /\ sent.resp.details = "upstream"
    /\ sent.calls = <<TokenEndpoint, "v1/me/top/tracks",
                      "v1/me/player/currently-playing">>

\* C14: every GET /ping request, in every token state, is answered 200 with
\* the JSON body {pong: true}.
C14_PingAnswersPong ==
    sent.route = "/ping" => sent.resp = Reply(200, "json", "pong: true")

\* the step handles the successful answer to the currently-playing call of
\* request q and ends q
NowPlayingAnswered(q) ==
    /\ q.pc = "await_now"
    /\ inflight' = Others(q)
    /\ nowPlayingRes' # NotHandled

\* the currently-playing answer reports no active item
NoActiveItem(data) == data = EmptyBody \/ data.item = JsNull

\* C13: when the currently-playing call of a /spotify request succeeds and
\* reports no active item, the request is answered 200, not as an error,
\* with now_playing null, with one top_tracks entry per item of the
\* top-tracks response in the provider's order, and with a timestamp.
C13_NothingPlayingIsSuccess ==
    [][\A q \in Pending :
          (NowPlayingAnswered(q) /\ NoActiveItem(nowPlayingRes'))
          => (/\ sent'.route = "/spotify"
              /\ sent'.resp.status = 200
              /\ sent'.resp.error = Absent
              /\ sent'.resp.body.now_playing = JsNull
              /\ Len(sent'.resp.body.top_tracks) = Len(q.items)
              /\ \A i \in 1..Len(q.items) :
                    /\ sent'.resp.body.top_tracks[i].id = q.items[i].id
                    /\ sent'.resp.body.top_tracks[i].uri = q.items[i].uri
              /\ sent'.resp.body.timestamp = now')]_vars

C13_Witness ==
    /\ nowPlayingRes = EmptyBody
    /\ sent.resp.status = 200
    /\ sent.resp.body.now_playing = JsNull
    /\ Len(sent.resp.body.top_tracks) = 2
    /\ sent.resp.body.top_tracks[1].id = "t1"

\* the keys of a TrackSummary
TrackSummaryKeys ==
    {"id", "name", "artists", "album", "duration_ms", "external_urls",
     "preview_url", "uri"}

\* C15: a now_playing that is present in a /spotify response carries every
\* TrackSummary field of the item being played, and progress_ms and
\* is_playing.
C15_NowPlayingCarriesEveryField ==
    (nowPlayingRes # NotHandled /\ sent.resp.body.now_playing # JsNull)
       => (/\ TrackSummaryKeys \cup {"progress_ms", "is_playing"}
                 \subseteq DOMAIN sent.resp.body.now_playing
           /\ sent.resp.body.now_playing.id = nowPlayingRes.item.id
           /\ sent.resp.body.now_playing.preview_url = nowPlayingRes.item.preview_url
           /\ sent.resp.body.now_playing.progress_ms = nowPlayingRes.progress_ms
           /\ sent.resp.body.now_playing.is_playing = nowPlayingRes.is_playing)

\* the artist names of a provider track as the claim spells them out: the
\* name alone for one artist, "first, second" for two
DisplayArtists(track) ==
    IF Len(track.artists) = 1
      THEN track.artists[1].name
      ELSE track.artists[1].name \o ", " \o track.artists[2].name

\* C16: top_tracks has the length and order of the provider's items, and
\* each entry copies id, name, duration_ms, preview_url and uri, takes album
\* from album.name and external_urls from external_urls.spotify, and has
\* the artist names joined in order with ", ".
C16_ReshapedTopTracks ==
    \A q \in Pending :
       q.pc = "await_now"
       => (/\ Len(q.top_tracks) = Len(q.items)
           /\ \A i \in 1..Len(q.items) :
                 /\ DOMAIN q.top_tracks[i] = TrackSummaryKeys
                 /\ q.top_tracks[i].id = q.items[i].id
                 /\ q.top_tracks[i].name = q.items[i].name
                 /\ q.top_tracks[i].duration_ms = q.items[i].duration_ms
                 /\ q.top_tracks[i].preview_url = q.items[i].preview_url
                 /\ q.top_tracks[i].uri = q.items[i].uri
                 /\ q.top_tracks[i].album = q.items[i].album.name
                 /\ q.top_tracks[i].external_urls = q.items[i].external_urls.spotify
                 /\ q.top_tracks[i].artists = DisplayArtists(q.items[i]))

C16_Witness ==
    \E q \in Pending :
        /\ q.pc = "await_now"
        /\ q.items = <<TrackA, TrackB>>
        /\ q.top_tracks[1] =
              [id |-> "t1", name |-> "Song", artists |-> "A, B", album |-> "Alb",
               duration_ms |-> 1000, external_urls |-> "url",
               preview_url |-> NullUrl, uri |-> "spotify:track:t1"]
        /\ q.top_tracks[2].artists = "C"

\* the position of endpoint ep in cs, 0 when cs has no call to it
IndexOf(cs, ep) ==
    IF \E i \in 1..Len(cs) : cs[i].ep = ep
      THEN CHOOSE i \in 1..Len(cs) : cs[i].ep = ep
      ELSE 0

\* C17: a /spotify request ends either with the 200 snapshot, in the step
\* that handles its successful currently-playing answer, or with a 500 error
\* that carries no top_tracks; a request that ends while its top-tracks call
\* is in flight has made no currently-playing call, and currently-playing
\* is only ever called right after a top-tracks call that succeeded.
C17_SpotifyFailsWhole ==
    [][/\ \A q \in Pending :
             (q.route = "/spotify" /\ inflight' = Others(q) /\ sent' # Nothing)
             => (/\ sent'.route = "/spotify"
                 /\ IF NowPlayingAnswered(q)
                      THEN sent'.resp.status = 200
                      ELSE /\ sent'.resp = ErrorJson(500, "Failed to fetch data", "upstream")
                           /\ sent'.resp.body = NoBody
                 /\ q.pc = "await_top"
                       => IndexOf(q.calls, "v1/me/player/currently-playing") = 0)
       /\ \A q \in BagToSet(inflight') :
             LET k == IndexOf(q.calls, "v1/me/player/currently-playing")
             IN k # 0 => (/\ k > 1
                          /\ q.calls[k - 1].ep = "v1/me/top/tracks"
                          /\ q.pc = "await_now")]_vars

C17_Witness ==
    /\ sent.route = "/spotify"
    /\ sent.resp.status = 500
    /\ sent.resp.details = "upstream"
    /\ sent.calls = <<"v1/me/top/tracks">>

\* C18: the two data calls of one /spotify request carry the same access
\* token: once the currently-playing call is issued, its Bearer token is the
\* one of the request's top-tracks call.
C18_OneTokenPerSpotifyRequest ==
    \A q \in Pending :
       (q.route = "/spotify" /\ q.pc = "await_now")
       => q.calls[Len(q.calls)].bearer = q.calls[Len(q.calls) - 1].bearer

\* C19: in every reachable state the cached access_token and the cached
\* refresh_token stem from the same authorization.
C19_TokensOfOneAuthorization ==
    access_token.auth = refresh_token.auth

\* how far a handler has come: its position among the awaits of its route
Rank(at) ==
    CASE at \in {"await_exchange", "await_refresh"} -> 1
      [] at \in {"await_top", "await_player", "await_devices"} -> 2
      [] at = "await_now" -> 3

\* the step receives a request
Arrival ==
    \/ inflight' = inflight /\ sent' # Nothing
    \/ BagCardinality(inflight') > BagCardinality(inflight)

\* C20: every request gets exactly one response.  A step that changes the
\* requests in flight either suspends a new request without a response, or
\* answers one request in flight and ends it, or moves one request in
\* flight to a later await of its handler without a response: no request is
\* dropped and none goes on after its response.  And when every outbound
\* call is eventually answered, then from the moment on that no further
\* request arrives, every request in flight is eventually answered: none
\* stays in flight.
C20_ExactlyOneResponse ==
    /\ [][inflight' # inflight
            => \/ /\ sent' = Nothing
                  /\ \E p \in BagToSet(inflight') : Started(p)
               \/ /\ sent' # Nothing
                  /\ \E q \in Pending :
                        inflight' = Others(q) /\ sent'.route = q.route
               \/ /\ sent' = Nothing
                  /\ \E q \in Pending, p \in BagToSet(inflight') :
                        /\ inflight' = Others(q) (+) SetToBag({p})
                        /\ p.route = q.route
                        /\ p.input = q.input
                        /\ Rank(p.pc) > Rank(q.pc)]_vars
    /\ (<>[][~Arrival]_vars => <>[](inflight = EmptyBag))

C20_Witness ==
    /\ sent.route = "/spotify/play"
    /\ sent.resp.status = 200
    /\ sent.calls = <<TokenEndpoint, "v1/me/player/play">>
    /\ inflight = EmptyBag

====
